---- MODULE Spec2Model ----
(***************************************************************************)
(* AuxMLMModel (src/robustqa/model.py): the span-masking pipeline          *)
(* (span_mask), the single-token alternative (mlm_mask), the gamma decay   *)
(* schedule (set_gammas / get_gamma) and the loss bookkeeping of forward.  *)
(*                                                                         *)
(* Tensors are functions over 0-based index ranges, as in the source:      *)
(* position p of a sequence is p \in 0..sent_len-1, span slot j is         *)
(* j \in 0..ncols-1.  An optional value (None in the source) is a sequence  *)
(* of length at most one: None is <<>>, a present value v is <<v>>.         *)
(*                                                                         *)
(* A batch is followed through one of its sequences.  The other sequences  *)
(* of the batch reach that sequence only through torch.max(nspans)         *)
(* (line 102), so they are represented by the largest span count among     *)
(* them (0: the batch holds no other sequence).                            *)
(*                                                                         *)
(* Loss values and gamma coefficients are integers (tenths).               *)
(***************************************************************************)
EXTENDS Integers, Sequences, FiniteSets, TLC

\* ---------------------------------------------------------------- constants
MASK_TOKEN == 0 - 100
PAD_TOKEN == 0
CLS_TOKEN == 101
SEP_TOKEN == 102
GAMMAS_INIT == <<0>>

\* label value the loss ignores (line 133, line 162)
IGNORE_LABEL == 0 - 100

\* self.mlm_probability = 0.15, as a percentage
mlm_probability_pct == 15
\* 1 / self.len_probability, self.len_probability = 0.2
inv_len_probability == 5
max_spanlen == 2

None == <<>>
Some(v) == <<v>>

\* ------------------------------------------------------------------- bounds
\* sequence length of the batches given to span_mask in SpecMask
SeqLen == 3
\* sequence length of the batches given to forward / mlm_mask in SpecForward
FwdSeqLen == 1
\* vocabulary size handed to add_vocab_size
VocabSize == 2
\* an ordinary (non-protected) token id
PlainToken == 1
\* a mask-token id handed to set_mask_token
AltMaskToken == 103
\* longest gamma schedule handed to set_gammas
MaxGammaLen == 2
\* forward stops advancing the cursor here (keeps the state space finite)
MaxGammaIdx == 3
\* loss values produced by the external cross-entropy collaborators
QALossValue == 2
MLMLossValue == 4

Tokens == {PAD_TOKEN, CLS_TOKEN, SEP_TOKEN, PlainToken}
GammaValues == {1, 3}
\* geometric draws: every draw above max_spanlen is clamped to max_spanlen,
\* so max_spanlen + 1 stands for all of them
GeomSupport == 0..(max_spanlen + 1)

Pos(sent_len) == 0..(sent_len - 1)
\* Sequences as the tokenizer lays them out, [CLS] only ever opening one and
\* [SEP], [PAD] never; the first token may also be an ordinary one, since
\* span_mask takes any tensor.
Batches(sent_len) ==
    {b \in [Pos(sent_len) -> Tokens] :
        \A p \in Pos(sent_len) :
            IF p = 0 THEN b[p] \in {CLS_TOKEN, PlainToken}
                     ELSE b[p] \in {SEP_TOKEN, PAD_TOKEN, PlainToken}}
\* the batches given to forward and mlm_mask: ordinary tokens, with or
\* without the opening [CLS]
FwdBatches(sent_len) ==
    {b \in Batches(sent_len) : \A p \in Pos(sent_len) : p > 0 => b[p] = PlainToken}
GammaSchedules == UNION {[1..n -> GammaValues] : n \in 1..MaxGammaLen}

Min2(a, b) == IF a < b THEN a ELSE b
Max2(a, b) == IF a > b THEN a ELSE b
Clamp(x, lo, hi) == Max2(lo, Min2(x, hi))

VARIABLES
    vocab_size, mask_token, gamma_idx, gammas,
    call, raised, ret, decays,
    orig, inputs, labels,
    ldist_trunc, lengths, start_idxs, end_idxs, masked_spans, random_spans,
    masked_indices, random_indices

modelvars == <<vocab_size, mask_token, gamma_idx, gammas>>
callvars == <<call, raised, ret, decays>>
localvars == <<ldist_trunc, lengths, start_idxs, end_idxs, masked_spans,
               random_spans, masked_indices, random_indices>>
vars == <<modelvars, callvars, orig, inputs, labels, localvars>>
\* ------------------------------------------------- span_mask, stage by stage

\* a variant that forgets the [PAD] line (line 89)
SpecialTokensMask_NoPad(inp) ==
    [p \in DOMAIN inp |-> inp[p] = CLS_TOKEN \/ inp[p] = SEP_TOKEN]

\* lines 86-90: positions holding [CLS], [SEP] or [PAD]
SpecialTokensMask(inp) ==
    [p \in DOMAIN inp |-> inp[p] = CLS_TOKEN \/ inp[p] = SEP_TOKEN \/ inp[p] = PAD_TOKEN]

\* line 95: clamp(ldist, min=0, max=self.max_spanlen) + 1
LdistTrunc(ldist) ==
    [j \in DOMAIN ldist |-> Clamp(ldist[j], 0, max_spanlen) + 1]

\* line 98: math.ceil(sent_len * self.mlm_probability)
NMask(sent_len) == (sent_len * mlm_probability_pct + 99) \div 100

\* line 99: torch.cumsum(ldist_trunc, dim=1), entry j
RECURSIVE CumSum(_, _)
CumSum(f, j) == IF j = 0 THEN f[0] ELSE CumSum(f, j - 1) + f[j]

\* a variant that compares each length, not the running sum, with the budget
AllocLengths_NoCumSum(lt, sent_len) ==
    [j \in DOMAIN lt |->
        IF lt[j] < NMask(sent_len) + inv_len_probability THEN lt[j] ELSE 0]

\* line 100: keep a length while the running sum is below nmask + 1/len_probability
AllocLengths(lt, sent_len) ==
    [j \in DOMAIN lt |->
        IF CumSum(lt, j) < NMask(sent_len) + inv_len_probability THEN lt[j] ELSE 0]

\* line 101: torch.count_nonzero(lengths, dim=1)
NSpans(len) == Cardinality({j \in DOMAIN len : len[j] # 0})

\* line 102: torch.max(nspans) over the batch: this sequence and its peers
BatchMaxSpans(own, peers) == Max2(own, peers)

\* line 102: lengths[:, :torch.max(nspans)]
Truncate(len, ncols) == [j \in 0..(ncols - 1) |-> len[j]]

\* span counts the other sequences of a batch can have (0: no other sequence)
PeerSpanCounts(sent_len) ==
    {0} \cup {NSpans(AllocLengths(LdistTrunc(d), sent_len)) :
                 d \in [Pos(sent_len) -> GeomSupport]}

\* lines 106-107: u[j] is ceil(rand * sent_len), a value in 0..sent_len
\* (0 when rand draws exactly 0.0)
StartIdxs(len, u) == [j \in DOMAIN len |-> IF len[j] > 0 THEN u[j] ELSE 0]

\* lines 108-109: start + length, clamped to [0, sent_len]
EndIdxs(len, st, sent_len) ==
    [j \in DOMAIN len |-> Clamp(st[j] + len[j], 0, sent_len)]

\* lines 111-113: the two Bernoulli draws per span slot, as 0/1
MaskedSpans(mbern) == mbern
RandomSpans(mbern, rbern) ==
    [j \in DOMAIN mbern |-> IF mbern[j] # 1 /\ rbern[j] = 1 THEN 1 ELSE 0]

\* line 121: the token index of slot j in iteration i of the fill loop
TokenIndex(st, en, i, j) == IF st[j] + i < en[j] THEN st[j] + i ELSE 0

\* lines 120-124: grid.scatter_(1, token_indices * spans, 1) for i in range(max_spanlen)
ScatterGrid(st, en, spans, sent_len) ==
    LET written == {TokenIndex(st, en, i, j) * spans[j] :
                        i \in 0..(max_spanlen - 1), j \in DOMAIN st}
    IN  [p \in Pos(sent_len) |-> IF p \in written THEN 1 ELSE 0]

\* lines 127-130: masked_fill_(special_tokens_mask, 0), then .bool()
ExcludeProtected(grid, special) ==
    [p \in DOMAIN grid |-> grid[p] # 0 /\ ~special[p]]

\* a variant that keeps a label at the masked positions only
MaskLabels_MaskedOnly(inp, mi, ri) ==
    [p \in DOMAIN inp |-> IF mi[p] THEN inp[p] ELSE IGNORE_LABEL]

\* line 133: labels[~(masked_indices | random_indices)] = -100
MaskLabels(inp, mi, ri) ==
    [p \in DOMAIN inp |-> IF mi[p] \/ ri[p] THEN inp[p] ELSE IGNORE_LABEL]

\* a variant that writes the random words first and the mask token last
RewriteInputs_MaskLast(inp, mi, ri, mtok, words) ==
    LET randomized == [p \in DOMAIN inp |-> IF ri[p] THEN words[p] ELSE inp[p]]
    IN  [p \in DOMAIN inp |-> IF mi[p] THEN mtok ELSE randomized[p]]

\* lines 135-136: inputs[masked_indices] = mask_token,
\* then inputs[random_indices] = random_words[random_indices]
RewriteInputs(inp, mi, ri, mtok, words) ==
    LET masked == [p \in DOMAIN inp |-> IF mi[p] THEN mtok ELSE inp[p]]
    IN  [p \in DOMAIN inp |-> IF ri[p] THEN words[p] ELSE masked[p]]

\* ------------------------------------------------------------------ actions

\* The most recent call: its operation ("set" for the three setters) and, for
\* forward, its flags; start_positions / end_positions say whether the gold
\* positions were supplied.
Call(op, mask_inputs, decay_gamma, start_positions, end_positions) ==
    [op |-> op, mask_inputs |-> mask_inputs, decay_gamma |-> decay_gamma,
     start_positions |-> start_positions, end_positions |-> end_positions]

\* __init__, lines 42-51
Init ==
    /\ vocab_size = None
    /\ mask_token = MASK_TOKEN
    /\ gamma_idx = 0
    /\ gammas = GAMMAS_INIT
    /\ call = Call("__init__", FALSE, FALSE, FALSE, FALSE)
    /\ raised = "none"
    /\ ret = None
    /\ decays = 0 - 1
    /\ orig = <<>>
    /\ inputs = <<>>
    /\ labels = <<>>
    /\ ldist_trunc = <<>>
    /\ lengths = <<>>
    /\ start_idxs = <<>>
    /\ end_idxs = <<>>
    /\ masked_spans = <<>>
    /\ random_spans = <<>>
    /\ masked_indices = <<>>
    /\ random_indices = <<>>

\* a call that runs no masking leaves no masking locals behind
NoLocals ==
    /\ ldist_trunc' = <<>>
    /\ lengths' = <<>>
    /\ start_idxs' = <<>>
    /\ end_idxs' = <<>>
    /\ masked_spans' = <<>>
    /\ random_spans' = <<>>
    /\ masked_indices' = <<>>
    /\ random_indices' = <<>>

NoTensors ==
    /\ orig' = <<>>
    /\ inputs' = <<>>
    /\ labels' = <<>>
    /\ NoLocals

\* the caller builds the batch of its next call: input_ids, and a copy of it
\* that no call touches
new_batch(b) ==
    /\ orig' = b
    /\ inputs' = b
    /\ labels' = <<>>
    /\ NoLocals
    /\ call' = Call("new_batch", FALSE, FALSE, FALSE, FALSE)
    /\ raised' = "none"
    /\ ret' = None
    /\ UNCHANGED <<modelvars, decays>>

\* lines 53-54
set_mask_token(tok) ==
    /\ mask_token' = tok
    /\ call' = Call("set", FALSE, FALSE, FALSE, FALSE)
    /\ raised' = "none"
    /\ ret' = None
    /\ NoTensors
    /\ UNCHANGED <<vocab_size, gamma_idx, gammas, decays>>

\* lines 57-59
set_gammas(s) ==
    /\ gammas' = s
    /\ gamma_idx' = 0
    /\ decays' = 0
    /\ call' = Call("set", FALSE, FALSE, FALSE, FALSE)
    /\ raised' = "none"
    /\ ret' = None
    /\ NoTensors
    /\ UNCHANGED <<vocab_size, mask_token>>

\* line 62: self.gammas[self.gamma_idx]; a list index past the end raises
GetGamma(g, idx) == IF idx < Len(g) THEN Some(g[idx + 1]) ELSE None

\* lines 61-62
get_gamma ==
    /\ call' = Call("get_gamma", FALSE, FALSE, FALSE, FALSE)
    /\ ret' = GetGamma(gammas, gamma_idx)
    /\ raised' = IF GetGamma(gammas, gamma_idx) = None THEN "IndexError" ELSE "none"
    /\ NoTensors
    /\ UNCHANGED <<modelvars, decays>>

\* lines 73-75
add_vocab_size(n) ==
    /\ vocab_size' = Some(n)
    /\ call' = Call("set", FALSE, FALSE, FALSE, FALSE)
    /\ raised' = "none"
    /\ ret' = None
    /\ NoTensors
    /\ UNCHANGED <<mask_token, gamma_idx, gammas, decays>>

\* lines 79-80 (and 145-146): the vocabulary size has not been added
VocabMissing == vocab_size = None

\* lines 83-138 of span_mask on the sequence batch, all random draws chosen:
\* ldist (line 94), peers (the rest of the batch), u (line 106), mbern and
\* rbern (lines 111-112), w (line 134).  A draw the code never reads is not
\* drawn: u at a slot of length 0 (line 107 overwrites it), rbern at a slot
\* whose mbern is 1 (line 112 masks it out), a random word outside
\* random_indices (line 136).  Each intermediate tensor is bound once, in
\* the order the code computes it.
SpanMaskBody(batch) ==
    LET sent_len == Cardinality(DOMAIN batch)
    IN  \E special \in {SpecialTokensMask(batch)} :
        \E lt \in {LdistTrunc(ldist) : ldist \in [Pos(sent_len) -> GeomSupport]} :
        \E alloc \in {AllocLengths(lt, sent_len)} :
        \E len \in {Truncate(alloc, BatchMaxSpans(NSpans(alloc), peers)) :
                       peers \in PeerSpanCounts(sent_len)} :
        \E u \in [{j \in DOMAIN len : len[j] > 0} -> 0..sent_len] :
        \E mbern \in [DOMAIN len -> {0, 1}] :
        \E rbern \in [{j \in DOMAIN len : mbern[j] = 0} -> {0, 1}] :
        \E st \in {StartIdxs(len, u)} :
        \E en \in {EndIdxs(len, st, sent_len)} :
        \E ms \in {MaskedSpans(mbern)} :
        \E rs \in {RandomSpans(mbern, rbern)} :
        \E mi \in {ExcludeProtected(ScatterGrid(st, en, ms, sent_len), special)} :
        \E ri \in {ExcludeProtected(ScatterGrid(st, en, rs, sent_len), special)} :
        \E w \in [{p \in Pos(sent_len) : ri[p]} -> 0..(vocab_size[1] - 1)] :
            /\ ldist_trunc' = lt
            /\ lengths' = len
            /\ start_idxs' = st
            /\ end_idxs' = en
            /\ masked_spans' = ms
            /\ random_spans' = rs
            /\ masked_indices' = mi
            /\ random_indices' = ri
            /\ labels' = MaskLabels(batch, mi, ri)
            /\ inputs' = RewriteInputs(batch, mi, ri, mask_token, w)

\* lines 78-138, on the tensor the caller holds
span_mask ==
    /\ call' = Call("span_mask", TRUE, FALSE, FALSE, FALSE)
    /\ ret' = None
    /\ IF VocabMissing
       THEN /\ raised' = "AttributeError"
            /\ labels' = <<>>
            /\ NoLocals
            /\ UNCHANGED inputs
       ELSE /\ raised' = "none"
            /\ SpanMaskBody(inputs)
    /\ UNCHANGED <<modelvars, decays, orig>>

\* lines 142-174, all random draws chosen: mdraw (line 161), replaced
\* (line 165), rdraw (line 169), w (line 170)
MlmMaskBody(batch) ==
    LET sent_len == Cardinality(DOMAIN batch)
    IN  \E special \in {SpecialTokensMask(batch)} :
        \E mdraw \in [{p \in Pos(sent_len) : ~special[p]} -> BOOLEAN] :
        \E mi \in {[p \in Pos(sent_len) |-> ~special[p] /\ mdraw[p]]} :
        \E replaced \in [{p \in Pos(sent_len) : mi[p]} -> BOOLEAN] :
        \E rdraw \in [{p \in Pos(sent_len) : mi[p] /\ ~replaced[p]} -> BOOLEAN] :
        \E ir \in {[p \in Pos(sent_len) |-> mi[p] /\ replaced[p]]} :
        \E ri \in {[p \in Pos(sent_len) |-> mi[p] /\ ~replaced[p] /\ rdraw[p]]} :
        \E w \in [{p \in Pos(sent_len) : ri[p]} -> 0..(vocab_size[1] - 1)] :
            /\ masked_indices' = mi
            /\ random_indices' = ri
            /\ labels' = [p \in Pos(sent_len) |-> IF mi[p] THEN batch[p] ELSE IGNORE_LABEL]
            /\ inputs' = RewriteInputs(batch, ir, ri, mask_token, w)
            /\ ldist_trunc' = <<>>
            /\ lengths' = <<>>
            /\ start_idxs' = <<>>
            /\ end_idxs' = <<>>
            /\ masked_spans' = <<>>
            /\ random_spans' = <<>>

\* lines 142-174, on the tensor the caller holds
mlm_mask ==
    /\ call' = Call("mlm_mask", TRUE, FALSE, FALSE, FALSE)
    /\ ret' = None
    /\ IF VocabMissing
       THEN /\ raised' = "AttributeError"
            /\ labels' = <<>>
            /\ NoLocals
            /\ UNCHANGED inputs
       ELSE /\ raised' = "none"
            /\ MlmMaskBody(inputs)
    /\ UNCHANGED <<modelvars, decays, orig>>

\* lines 237-252: the QA loss, present when both gold positions are supplied
QALoss(start_positions, end_positions) ==
    IF start_positions /\ end_positions THEN Some(QALossValue) ELSE None

\* lines 256-258: the MLM loss, 0 unless the inputs were masked
MLMLoss(mask_inputs) == IF mask_inputs THEN MLMLossValue ELSE 0

\* lines 261-264: the coefficient at the cursor, the last one past the end
GammaCurrent(g, idx) == IF idx > Len(g) - 1 THEN g[Len(g)] ELSE g[idx + 1]

\* lines 266-267
AdvanceGamma(idx, decay_gamma) == IF decay_gamma THEN idx + 1 ELSE idx

\* lines 270-273 (gammas are tenths, so the QA loss is scaled to tenths)
TotalLoss(qa_loss, gamma_current, mlm_loss) ==
    IF qa_loss = None
    THEN Some(gamma_current * mlm_loss)
    ELSE Some(10 * qa_loss[1] + gamma_current * mlm_loss)

\* line 277: the loss slot of the returned tuple
LossSlot(total_loss) == IF total_loss # None THEN total_loss ELSE None

\* a variant that advances the cursor before the inputs are masked
forward_DecayFirst(start_positions, end_positions, decay_gamma, mask_inputs) ==
    /\ decay_gamma => gamma_idx < MaxGammaIdx
    /\ call' = Call("forward", mask_inputs, decay_gamma, start_positions, end_positions)
    /\ gamma_idx' = AdvanceGamma(gamma_idx, decay_gamma)
    /\ IF mask_inputs /\ VocabMissing
       THEN /\ raised' = "AttributeError"
            /\ labels' = <<>>
            /\ NoLocals
            /\ ret' = None
            /\ UNCHANGED inputs
            /\ UNCHANGED decays
       ELSE /\ raised' = "none"
            /\ IF mask_inputs
               THEN SpanMaskBody(inputs)
               ELSE /\ labels' = inputs
                    /\ NoLocals
                    /\ UNCHANGED inputs
            /\ ret' = LossSlot(TotalLoss(QALoss(start_positions, end_positions),
                                         GammaCurrent(gammas, gamma_idx),
                                         MLMLoss(mask_inputs)))
            /\ decays' = IF decay_gamma /\ decays >= 0 THEN decays + 1 ELSE decays
    /\ UNCHANGED <<vocab_size, mask_token, gammas, orig>>

\* lines 176-277
forward(start_positions, end_positions, decay_gamma, mask_inputs) ==
    /\ decay_gamma => gamma_idx < MaxGammaIdx
    /\ call' = Call("forward", mask_inputs, decay_gamma, start_positions, end_positions)
    /\ IF mask_inputs /\ VocabMissing
       THEN /\ raised' = "AttributeError"
            /\ labels' = <<>>
            /\ NoLocals
            /\ ret' = None
            /\ UNCHANGED inputs
            /\ UNCHANGED <<gamma_idx, decays>>
       ELSE /\ raised' = "none"
            /\ IF mask_inputs
               THEN SpanMaskBody(inputs)
               ELSE /\ labels' = inputs
                    /\ NoLocals
                    /\ UNCHANGED inputs
            /\ ret' = LossSlot(TotalLoss(QALoss(start_positions, end_positions),
                                         GammaCurrent(gammas, gamma_idx),
                                         MLMLoss(mask_inputs)))
            /\ gamma_idx' = AdvanceGamma(gamma_idx, decay_gamma)
            /\ decays' = IF decay_gamma /\ decays >= 0 THEN decays + 1 ELSE decays
    /\ UNCHANGED <<vocab_size, mask_token, gammas, orig>>

\* ----------------------------------------------------------- specifications

\* The tensor variables describe the batch of the latest call; a call that
\* takes no batch forgets them.  A masking or forward call reads the model's
\* fields and its batch only, never what an earlier call left behind, so the
\* caller builds a batch only when it holds none (Quiescent) and hands each
\* batch to one call (Fresh): the same states are reached with far fewer
\* transitions.
Quiescent == orig = <<>>
Fresh == call.op = "new_batch"

\* the masking pipeline on batches of SeqLen tokens
NextMask ==
    \/ add_vocab_size(VocabSize)
    \/ set_mask_token(AltMaskToken)
    \/ Quiescent /\ \E b \in Batches(SeqLen) : new_batch(b)
    \/ Fresh /\ span_mask

SpecMask == Init /\ [][NextMask]_vars

\* the gamma schedule and forward's bookkeeping on batches of FwdSeqLen tokens
NextForward ==
    \/ add_vocab_size(VocabSize)
    \/ \E s \in GammaSchedules : set_gammas(s)
    \/ get_gamma
    \/ Quiescent /\ \E b \in FwdBatches(FwdSeqLen) : new_batch(b)
    \/ Fresh /\ span_mask
    \/ Fresh /\ mlm_mask
    \/ Fresh /\ \E sp \in BOOLEAN, ep \in BOOLEAN, dg \in BOOLEAN, mk \in BOOLEAN :
                   forward(sp, ep, dg, mk)

SpecForward == Init /\ [][NextForward]_vars

\* ------------------------------------------------------------------- claims

\* span_mask returned its two tensors
AfterSpanMask == call.op = "span_mask" /\ raised = "none"

Protected(tok) == tok \in {CLS_TOKEN, SEP_TOKEN, PAD_TOKEN}

\* position p lies inside the retained span of slot j
InSpan(p, j) == lengths[j] > 0 /\ start_idxs[j] <= p /\ p < end_idxs[j]

RECURSIVE SumUpTo(_, _)
SumUpTo(f, j) == IF j < 0 THEN 0 ELSE SumUpTo(f, j - 1) + f[j]

\* C1: after span_mask, a position whose original token is [CLS], [SEP] or
\* [PAD] is in neither index grid, its label is the ignore value -100 and its
\* input token is the original one.
C1_ProtectedUntouched ==
    AfterSpanMask =>
        \A p \in DOMAIN orig :
            Protected(orig[p]) =>
                /\ ~masked_indices[p]
                /\ ~random_indices[p]
                /\ labels[p] = IGNORE_LABEL
                /\ inputs[p] = orig[p]

\* C1 witness: a [MASK] span and a random-token span each cover a protected
\* position other than the first.
C1_Witness ==
    /\ AfterSpanMask
    /\ \E p \in DOMAIN orig, j \in DOMAIN lengths :
           p > 0 /\ Protected(orig[p]) /\ InSpan(p, j) /\ masked_spans[j] = 1
    /\ \E p \in DOMAIN orig, j \in DOMAIN lengths :
           p > 0 /\ Protected(orig[p]) /\ InSpan(p, j) /\ random_spans[j] = 1

\* C2 (as claimed): after span_mask, a non-protected position inside no
\* retained span has label -100 and its original input token, position 0
\* included.
C2_UnselectedUntouched ==
    AfterSpanMask =>
        \A p \in DOMAIN orig :
            (~Protected(orig[p]) /\ ~\E j \in DOMAIN lengths : InSpan(p, j)) =>
                /\ labels[p] = IGNORE_LABEL
                /\ inputs[p] = orig[p]

\* C3 (as claimed): after span_mask, the non-protected tokens of a retained
\* span given neither policy keep their input token and have the original
\* token id as their label.
C3_UnchangedSupervised ==
    AfterSpanMask =>
        \A j \in DOMAIN lengths :
            (lengths[j] > 0 /\ masked_spans[j] = 0 /\ random_spans[j] = 0) =>
                \A p \in DOMAIN orig :
                    (InSpan(p, j) /\ ~Protected(orig[p])) =>
                        /\ inputs[p] = orig[p]
                        /\ labels[p] = orig[p]

\* C6 (as claimed): every candidate span length of the sampler lies in
\* 1..max_spanlen.
C6_LengthRange ==
    AfterSpanMask =>
        \A j \in DOMAIN ldist_trunc :
            1 <= ldist_trunc[j] /\ ldist_trunc[j] <= max_spanlen

\* C7: after span_mask, wherever the returned input token differs from the
\* original one the label is the original token id.
C7_ChangedIsLabelled ==
    AfterSpanMask =>
        \A p \in DOMAIN orig :
            inputs[p] # orig[p] => labels[p] = orig[p]

\* C7 witness: a position other than the first was rewritten by a
\* random-token span, another by a [MASK] span.
C7_Witness ==
    /\ AfterSpanMask
    /\ \E p \in DOMAIN orig : p > 0 /\ random_indices[p] /\ inputs[p] # orig[p]
    /\ \E p \in DOMAIN orig : p > 0 /\ masked_indices[p] /\ inputs[p] = mask_token

\* C8: the retained lengths of a sequence sum to at most
\* ceil(sent_len * 0.15) + 1/0.2, they are a prefix of its candidates, and the
\* truncation to the batch-wide span count keeps every one of them.
C8_Budget ==
    AfterSpanMask =>
        LET sent_len == Cardinality(DOMAIN orig)
            ncols == Cardinality(DOMAIN lengths)
            budget == (sent_len * 15 + 99) \div 100 + 5
        IN  /\ SumUpTo(lengths, ncols - 1) <= budget
            /\ \A j \in DOMAIN lengths :
                   lengths[j] # 0 =>
                       /\ lengths[j] = ldist_trunc[j]
                       /\ \A k \in 0..(j - 1) : lengths[k] # 0
            /\ \A j \in DOMAIN ldist_trunc :
                   SumUpTo(ldist_trunc, j) < budget =>
                       j \in DOMAIN lengths /\ lengths[j] = ldist_trunc[j]

\* C8 witness: the candidates of the sequence add up to more than the budget,
\* one of them was zeroed, and the batch-wide span count left the sequence an
\* empty slot.
C8_Witness ==
    /\ AfterSpanMask
    /\ SumUpTo(ldist_trunc, Cardinality(DOMAIN ldist_trunc) - 1)
           > (Cardinality(DOMAIN orig) * 15 + 99) \div 100 + 5
    /\ \E j \in DOMAIN lengths : lengths[j] = 0
    /\ \E j \in DOMAIN lengths : j > 0 /\ lengths[j] > 0

\* C10 (as claimed): after span_mask, every position of the masked-index grid
\* holds the mask-token id, also when it is in the randomized-index grid too.
C10_MaskWins ==
    AfterSpanMask =>
        \A p \in DOMAIN orig : masked_indices[p] => inputs[p] = mask_token

\* C10 (amended): after span_mask, every position of the randomized-index grid
\* holds a random token id in 0..vocab_size-1, also when it is in the
\* masked-index grid too; a position of the masked-index grid that is not in
\* the randomized-index grid holds the mask-token id; any other position holds
\* its original token.
C10_RandomWins ==
    AfterSpanMask =>
        \A p \in DOMAIN orig :
            /\ random_indices[p] => inputs[p] \in 0..(vocab_size[1] - 1)
            /\ (masked_indices[p] /\ ~random_indices[p]) => inputs[p] = mask_token
            /\ (~masked_indices[p] /\ ~random_indices[p]) => inputs[p] = orig[p]

\* C10 witness: a [MASK] span and a random-token span overlap at a position
\* other than the first, which is then in both grids.
C10_Witness ==
    /\ AfterSpanMask
    /\ \E p \in DOMAIN orig :
           /\ p > 0
           /\ masked_indices[p]
           /\ random_indices[p]
           /\ \E j \in DOMAIN lengths : InSpan(p, j) /\ masked_spans[j] = 1
           /\ \E j \in DOMAIN lengths : InSpan(p, j) /\ random_spans[j] = 1

\* C4 (as claimed): once set_gammas(s) has been called, get_gamma() after k
\* forward calls with decay_gamma=True succeeds and returns
\* s[min(k, len(s) - 1)].
C4_GetGammaClamped ==
    (call.op = "get_gamma" /\ decays >= 0) =>
        /\ raised = "none"
        /\ ret = Some(gammas[Min2(decays, Len(gammas) - 1) + 1])

\* C5 (as claimed): a forward call returns a loss only when both gold
\* positions were supplied or mask_inputs is true; without either the loss
\* slot is absent.
C5_LossOnlyWhenAsked ==
    (call.op = "forward" /\ raised = "none") =>
        (ret # None =>
            ((call.start_positions /\ call.end_positions) \/ call.mask_inputs))

\* C9: a forward call with mask_inputs=True, or a direct span_mask or mlm_mask
\* call, made while no vocabulary size has been added raises the
\* configuration error, leaves the input batch as it was and does not move
\* the gamma cursor.
C9_FailFast ==
    [][(/\ call'.op \in {"forward", "span_mask", "mlm_mask"}
        /\ call'.mask_inputs
        /\ vocab_size = None)
       => (/\ raised' = "AttributeError"
           /\ inputs' = orig'
           /\ gamma_idx' = gamma_idx
           /\ vocab_size' = None)]_vars

\* C9 witness: forward(mask_inputs=True, decay_gamma=True) raised the
\* configuration error after a schedule was set.
C9_Witness ==
    /\ call.op = "forward"
    /\ call.mask_inputs
    /\ call.decay_gamma
    /\ raised = "AttributeError"
    /\ decays = 0
====
